---- MODULE Spec2Model ----
(***************************************************************************)
(* The window-tiling daemon of tabs.py: a polling loop that enumerates the *)
(* eligible windows (open_windows), decides whether the layout changed     *)
(* (arrange_windows) and tiles the windows into a grid                     *)
(* (arrange_and_update_state), shelling out to wmctrl, xprop, xwininfo and *)
(* xdpyinfo.  Every call of an external tool is an input of the step that  *)
(* makes it: its outcome is drawn from the outputs the tool can produce.   *)
(***************************************************************************)
EXTENDS Integers, Sequences, FiniteSets, TLC

\* ------------------------------------------------------------------ bounds
MaxWin == 2                      \* windows of the desktop the daemon is followed on, cycle after cycle
MaxTiles == 4                    \* windows of the desktop its first cycle is followed on
MaxLines == 2                    \* lines of a wmctrl -l listing given to open_windows alone

\* ------------------------------------------------------- program constants
DefaultWidth == 1920
DefaultHeight == 1080
ExitMissingTool == 1
ExitInterrupt_nonzero == ExitMissingTool   \* sys.exit(1) in the handler
ExitInterrupt == 0
ExitTraceback == 1               \* CPython's exit status for an uncaught exception

NoneVal == <<>>                  \* Python's None, for values that are tuples
NoneStr == "None"                \* Python's None, for values that are strings
NORMAL == "_NET_WM_WINDOW_TYPE_NORMAL"
EmptyMap == <<>>                 \* the dict {}

\* The geometry a window has before the daemon touches it, or after the
\* user drags it.
UserGeom == <<37, 41, 640, 480>>

VARIABLES
    wins,               \* X server: the identifiers a window of this desktop can have
    pc,                 \* position of main(): startup, loop, arrange_begin,
                        \* arrange_loop, arrange_end, sleep, exited
    exitCode,           \* -1 while running
    exitCause,          \* "none", "tools", "KeyboardInterrupt" or the uncaught exception
    at_exit,            \* the position main() was at when the process ended
    prev_window_state,  \* the module-level dict
    current_windows,    \* arrange_windows: the window ids of open_windows()
    idx,                \* arrange_and_update_state: 1 + the loop's i
    cols, rows, tab_width, tab_height, new_state,
    scr,                \* what screensize() returned to tabsize
    xdpy,               \* the xdpyinfo run screensize() saw
    cmds,               \* the wmctrl -e commands issued in this pass, in order
    skipped,            \* the windows this pass skipped as maximized
    probe,              \* the xprop run the latest loop iteration saw, and whether it went on to move
    fail_at,            \* position in cmds of the first command that failed, 0 if none
    log,                \* the messages this pass emitted (level INFO and above)
    geom,               \* X server: live geometry of each window
    maximized,          \* X server: the maximized windows
    had_prev,           \* a previous pass has enumerated
    rearranged,         \* this pass called arrange_and_update_state
    set_changed,        \* this pass enumerated another identifier set than the previous pass
    stable,             \* this pass began with the layout of the previous pass intact
    wm_out, ow_ret      \* an open_windows() call on its own: input and result

vars == <<wins, pc, exitCode, exitCause, at_exit, prev_window_state, current_windows,
          idx, cols, rows, tab_width, tab_height, new_state, scr, xdpy, cmds,
          skipped, probe, fail_at, log, geom, maximized, had_prev, set_changed, rearranged, stable,
          wm_out, ow_ret>>

Exc == {"CalledProcessError", "FileNotFoundError"}

\* ------------------------------------------------------------- screensize
\* An xdpyinfo run: exc is the exception check_output raised ("none" when it
\* returned), lines the decoded output.  A line is [dim, nparts, fields]: dim
\* says 'dimensions:' occurs in it, nparts is len(line.split()), fields is
\* parts[1].split('x'), each field [isint, n] (whether int() accepts it).
DimLine(w, h) == [dim |-> TRUE, nparts |-> 5,
                  fields |-> <<[isint |-> TRUE, n |-> w], [isint |-> TRUE, n |-> h]>>]
OtherLine == [dim |-> FALSE, nparts |-> 3, fields |-> <<[isint |-> FALSE, n |-> 0]>>]

XdpyRuns ==
    { [exc |-> "none", lines |-> <<OtherLine, DimLine(1920, 1080), OtherLine>>],
      [exc |-> "none", lines |-> <<OtherLine, DimLine(1366, 768)>>],
      [exc |-> "CalledProcessError", lines |-> <<>>],
      [exc |-> "FileNotFoundError", lines |-> <<>>],
      [exc |-> "none", lines |-> <<OtherLine, OtherLine>>],
      [exc |-> "none", lines |-> <<[dim |-> TRUE, nparts |-> 1, fields |-> <<>>]>>],
      [exc |-> "none", lines |-> <<[dim |-> TRUE, nparts |-> 3,
            fields |-> <<[isint |-> TRUE, n |-> 1920], [isint |-> FALSE, n |-> 0]>>]>>],
      [exc |-> "none", lines |-> <<[dim |-> TRUE, nparts |-> 3,
            fields |-> <<[isint |-> TRUE, n |-> 1920]>>]>>] }

Default == <<DefaultWidth, DefaultHeight>>

screensize(run) ==
    IF run.exc = "CalledProcessError" THEN Default
    ELSE IF run.exc = "FileNotFoundError" THEN Default
    ELSE LET hits == {k \in 1..Len(run.lines) : run.lines[k].dim}
         IN IF hits = {} THEN NoneVal          \* the loop falls through: no return
            ELSE LET line == run.lines[CHOOSE k \in hits : \A j \in hits : k <= j]
                 IN IF line.nparts < 2 THEN Default                     \* IndexError
                    ELSE IF Len(line.fields) # 2 THEN Default           \* ValueError (unpack)
                    ELSE IF \E k \in 1..2 : ~line.fields[k].isint THEN Default  \* ValueError (int)
                    ELSE <<line.fields[1].n, line.fields[2].n>>

\* math.floor(a / b) for b > 0
FloorDiv(a, b) == a \div b

\* tabsize: [exc, val]; unpacking None raises TypeError
tabsize(c, r, run) ==
    LET s == screensize(run)
    IN IF s = NoneVal THEN [exc |-> "TypeError", val |-> NoneVal]
       ELSE IF c = 0 \/ r = 0 THEN [exc |-> "ZeroDivisionError", val |-> NoneVal]
       ELSE [exc |-> "none", val |-> <<FloorDiv(s[1], c), FloorDiv(s[2], r)>>]

\* ------------------------------------------------------------------ xprop
\* An `xprop -id w _NET_WM_STATE` run: exc, and the atoms the output names.
StateRun(e, atoms) == [exc |-> e, atoms |-> atoms]

is_minimized(run) ==
    IF run.exc = "none"
    THEN "_NET_WM_STATE_HIDDEN" \in run.atoms \/ "_NET_WM_STATE_ICONIC" \in run.atoms
    ELSE FALSE                                  \* both handlers log and return False

is_maximized_skipcheck(run) == FALSE

is_maximized(run) ==
    IF run.exc = "none"
    THEN "_NET_WM_STATE_MAXIMIZED_HORZ" \in run.atoms
         \/ "_NET_WM_STATE_MAXIMIZED_VERT" \in run.atoms
    ELSE FALSE

\* An `xprop -id w _NET_WM_WINDOW_TYPE` run: exc and the output lines, a line
\* being [key, last]: whether '_NET_WM_WINDOW_TYPE' occurs in it, and
\* line.split()[-1].strip('"').
TypeRun(e, lines) == [exc |-> e, lines |-> lines]

\* get_window_type: [exc, val].  FileNotFoundError has no handler.
get_window_type(run) ==
    IF run.exc = "CalledProcessError" THEN [exc |-> "none", val |-> NoneStr]
    ELSE IF run.exc = "FileNotFoundError" THEN [exc |-> "FileNotFoundError", val |-> NoneStr]
    ELSE LET hits == {k \in 1..Len(run.lines) : run.lines[k].key}
         IN IF hits = {} THEN [exc |-> "none", val |-> NoneStr]
            ELSE [exc |-> "none",
                  val |-> run.lines[CHOOSE k \in hits : \A j \in hits : k <= j].last]

\* ----------------------------------------------------------- open_windows
\* A `wmctrl -l` run: exc and the output lines.  A line is
\* [win_id, title, st, ty]: title is parts[3] ("" when the line has only three
\* fields), st and ty the xprop runs made for that window.
Eligible_nomincheck(ln) ==
    /\ ln.title # ""
    /\ LET t == get_window_type(ln.ty).val IN ~(t # NoneStr /\ t # NORMAL)

\* the three `continue` tests of the loop body, for a line whose type query returned
Eligible(ln) ==
    /\ ln.title # ""
    /\ ~is_minimized(ln.st)
    /\ LET t == get_window_type(ln.ty).val IN ~(t # NoneStr /\ t # NORMAL)

\* get_window_type is reached for a line: it has a title and is not minimized
AsksType(ln) == ln.title # "" /\ ~is_minimized(ln.st)

RECURSIVE ow_loop(_, _, _)
ow_loop(lines, k, acc) ==
    IF k > Len(lines) THEN [exc |-> "none", windows |-> acc]
    ELSE IF AsksType(lines[k]) /\ get_window_type(lines[k].ty).exc # "none"
         THEN [exc |-> get_window_type(lines[k].ty).exc, windows |-> <<>>]
    ELSE IF Eligible(lines[k]) THEN ow_loop(lines, k + 1, Append(acc, lines[k].win_id))
    ELSE ow_loop(lines, k + 1, acc)

\* open_windows: [exc, windows]; the titles, used only in log messages, are dropped
open_windows(run) ==
    IF run.exc \in Exc THEN [exc |-> "none", windows |-> <<>>]
    ELSE ow_loop(run.lines, 1, <<>>)

\* ------------------------------------------------- xwininfo and wmctrl -e
\* An `xwininfo -id w` run: exc, the fields among x, y, w, h whose line the
\* output holds, and whether int() rejects one of the values.
XwinAll == {"x", "y", "w", "h"}
XwinRuns ==
    { [exc |-> "none", has |-> XwinAll, bad |-> FALSE],
      [exc |-> "none", has |-> {"w", "h"}, bad |-> FALSE],
      [exc |-> "none", has |-> XwinAll, bad |-> TRUE],
      [exc |-> "CalledProcessError", has |-> {}, bad |-> FALSE],
      [exc |-> "FileNotFoundError", has |-> {}, bad |-> FALSE] }

\* get_window_geometry of a window whose live geometry is g: [exc, val].
\* ValueError (from int) has no handler.
get_window_geometry(g, run) ==
    IF run.exc \in Exc THEN [exc |-> "none", val |-> NoneVal]
    ELSE IF run.bad /\ run.has # {} THEN [exc |-> "ValueError", val |-> NoneVal]
    ELSE IF run.has = XwinAll THEN [exc |-> "none", val |-> g]
    ELSE [exc |-> "none", val |-> NoneVal]

\* move_resize never raises: both exceptions are logged.  The live geometry
\* of the window afterwards, mv being what check_call raised:
move_resize(g, target, mv) == IF mv = "none" THEN target ELSE g

\* ----------------------------------------------------------------- grid
\* math.ceil(math.sqrt(n)), exact for the window counts of a desktop
RECURSIVE CeilSqrtFrom(_, _)
CeilSqrtFrom(n, c) == IF c * c >= n THEN c ELSE CeilSqrtFrom(n, c + 1)
CeilSqrt(n) == CeilSqrtFrom(n, 0)

\* math.ceil(n / c) for c > 0
CeilDiv(n, c) == (n + c - 1) \div c

CellX_swapped(i, c, tw) == (i \div c) * tw

\* x and y of the loop body, i the 0-based index
CellX(i, c, tw) == (i % c) * tw
CellY(i, c, th) == (i \div c) * th

\* ------------------------------------------------------------ dict helpers
Range(seq) == {seq[k] : k \in 1..Len(seq)}
Put(d, k, v) == [x \in (DOMAIN d) \cup {k} |-> IF x = k THEN v ELSE d[x]]
\* dict.get(k), None when absent
Get(d, k) == IF k \in DOMAIN d THEN d[k] ELSE NoneVal

\* ------------------------------------------------------- the X environment
HORZ == "_NET_WM_STATE_MAXIMIZED_HORZ"
VERT == "_NET_WM_STATE_MAXIMIZED_VERT"
XpropExcs == {"none"} \cup Exc
MoveExcs == {"none"} \cup Exc

\* what `xprop -id w _NET_WM_STATE` answers for window w in the current X state
StateRunOf(w, e) ==
    StateRun(e, IF e = "none" /\ w \in maximized THEN {HORZ, VERT} ELSE {})

NormalType == TypeRun("none", <<[key |-> TRUE, last |-> NORMAL]>>)
DialogType == TypeRun("none", <<[key |-> TRUE, last |-> "_NET_WM_WINDOW_TYPE_DIALOG"]>>)
NoTypeLine == TypeRun("none", <<[key |-> FALSE, last |-> "found."]>>)

\* the lines wmctrl -l prints for a window, by the state the window is in
MainKinds == {"good", "minimized", "untyped", "noxprop"}
Line(w, kind) ==
    CASE kind = "good" ->
           [win_id |-> w, title |-> "t", st |-> StateRun("none", {}), ty |-> NormalType]
      [] kind = "minimized" ->
           [win_id |-> w, title |-> "t",
            st |-> StateRun("none", {"_NET_WM_STATE_HIDDEN"}), ty |-> NormalType]
      [] kind = "untyped" ->
           [win_id |-> w, title |-> "t", st |-> StateRun("none", {}),
            ty |-> TypeRun("CalledProcessError", <<>>)]
      [] kind = "noxprop" ->
           [win_id |-> w, title |-> "t", st |-> StateRun("FileNotFoundError", {}),
            ty |-> TypeRun("FileNotFoundError", <<>>)]

\* the windows of f that are listed, in client-list (ascending) order
RECURSIVE MkLines(_, _)
MkLines(f, k) ==
    IF k \notin DOMAIN f THEN <<>>
    ELSE IF f[k] = "absent" THEN MkLines(f, k + 1)
    ELSE <<Line(k, f[k])>> \o MkLines(f, k + 1)

\* the wmctrl -l runs this desktop can answer with
MainWmRuns ==
    {[exc |-> "none", lines |-> MkLines(f, 1)] : f \in [wins -> MainKinds \cup {"absent"}]}
    \cup {[exc |-> e, lines |-> <<>>] : e \in Exc}

NoRun == [exc |-> "none", lines |-> <<>>]
NotRun == [exc |-> "not run", lines |-> <<>>]
NoRet == [exc |-> "pending", windows |-> <<>>]
NoProbe == [run |-> StateRun("none", {}), moved |-> FALSE]

\* ------------------------------------------------------------------- main
Running == {"loop", "arrange_begin", "arrange_loop", "sleep"}
\* The daemon looks at the desktop when a pass begins and in each iteration of
\* the arranging loop: what the user does is followed at the positions before these.
UserAt == {"sleep", "arrange_loop"}

InitOn(desktop) ==
    /\ wins = desktop
    /\ pc = "startup" /\ exitCode = -1 /\ exitCause = "none" /\ at_exit = "none"
    /\ prev_window_state = EmptyMap
    /\ current_windows = <<>>
    /\ idx = 1 /\ cols = 0 /\ rows = 0 /\ tab_width = 0 /\ tab_height = 0
    /\ new_state = EmptyMap
    /\ scr = NoneVal /\ xdpy = NotRun
    /\ cmds = <<>> /\ skipped = {} /\ probe = NoProbe /\ fail_at = 0 /\ log = {}
    /\ geom = [w \in desktop |-> UserGeom]
    /\ maximized \in SUBSET desktop
    /\ had_prev = FALSE /\ set_changed = FALSE /\ rearranged = FALSE /\ stable = FALSE
    /\ wm_out = NoRun /\ ow_ret = NoRet

Init == InitOn(1..MaxWin)

passVars == <<current_windows, idx, cols, rows, tab_width, tab_height, new_state,
              scr, xdpy, cmds, skipped, probe, fail_at, log, had_prev, set_changed,
              rearranged, stable>>
envVars == <<geom, maximized>>
enumVars == <<wins, wm_out, ow_ret>>

\* the process ends with this code, for this reason
Exit(code, cause) ==
    /\ pc' = "exited" /\ exitCode' = code /\ exitCause' = cause /\ at_exit' = pc
    /\ geom' = [w \in wins |-> UserGeom] /\ maximized' = {}   \* the desktop is followed no further

\* the process goes on, to position p
Stay(p) == pc' = p /\ UNCHANGED <<exitCode, exitCause, at_exit>>

\* main, lines 209-215: the two shutil.which tests
Startup ==
    /\ pc = "startup"
    /\ \E wmctrl \in BOOLEAN, xwininfo \in BOOLEAN :
         IF ~wmctrl \/ ~xwininfo
         THEN Exit(ExitMissingTool, "tools")
         ELSE Stay("loop") /\ UNCHANGED envVars
    /\ UNCHANGED <<prev_window_state, passVars, enumVars>>

\* what open_windows logs when the listing itself fails (the messages about a
\* single window, from the loop body and the xprop helpers, are not followed)
OwLog(run) ==
    IF run.exc = "CalledProcessError"
    THEN {"Error retrieving open windows. Ensure wmctrl is installed."}
    ELSE IF run.exc = "FileNotFoundError"
    THEN {"wmctrl command not found. Please install wmctrl."}
    ELSE {}

\* the xprop and xwininfo runs step 2 makes for one window
Probes == [e : XpropExcs, xr : XwinRuns]

\* arrange_windows step 2, lines 171-180, from the k-th window on:
\* "rearrange", "noop", or the exception that escapes
RECURSIVE step2(_, _, _)
step2(ws, k, probes) ==
    IF k > Len(ws) THEN "noop"
    ELSE LET w == ws[k]
             g == get_window_geometry(geom[w], probes[w].xr)
         IN IF is_maximized(StateRunOf(w, probes[w].e)) THEN step2(ws, k + 1, probes)
            ELSE IF g.exc # "none" THEN g.exc
            ELSE IF g.val = NoneVal THEN step2(ws, k + 1, probes)
            ELSE IF Get(prev_window_state, w) # g.val THEN "rearrange"
            ELSE step2(ws, k + 1, probes)

\* every window of ids that is not maximized sits where the last pass put it
Undisturbed(ids) ==
    \A w \in ids \ maximized :
        \E k \in 1..Len(cmds) : cmds[k].win_id = w /\ cmds[k].target = geom[w]

\* the windows the desktop is followed for after a wmctrl run: those
\* open_windows returned (all, when the listing failed and says nothing)
Tracked(run) ==
    IF run.exc = "none" THEN Range(open_windows(run).windows) ELSE wins

\* arrange_windows, lines 158-182, up to the call of arrange_and_update_state.
\* A window that is not enumerated is followed no further: when its identifier
\* comes back it is unmaximized, where the user put it.  The pass begins when
\* main first enters the loop, or when time.sleep(5) of line 219 returns.
arrange_windows ==
    /\ pc \in {"loop", "sleep"}
    /\ \E run \in MainWmRuns :
         LET ow == open_windows(run)
             ids == Range(ow.windows)
             changed == ids # DOMAIN prev_window_state
             env == /\ geom' = [w \in wins |-> IF w \in Tracked(run) THEN geom[w] ELSE UserGeom]
                    /\ maximized' = maximized \cap Tracked(run)
         IN /\ log' = OwLog(run) \cup
                 (IF ow.exc = "none" /\ changed
                  THEN {"Window set changed - rearranging."} ELSE {})
            /\ IF ow.exc # "none"
               THEN /\ Exit(ExitTraceback, ow.exc)
                    /\ UNCHANGED <<current_windows, cmds, skipped, probe, fail_at, had_prev,
                                   set_changed, rearranged, stable>>
               ELSE \E probes \in (IF changed THEN {<<>>} ELSE [ids -> Probes]) :
                      LET d == IF changed THEN "rearrange" ELSE step2(ow.windows, 1, probes)
                      IN /\ current_windows' = ow.windows
                         /\ cmds' = <<>> /\ skipped' = {} /\ probe' = NoProbe /\ fail_at' = 0
                         /\ had_prev' = TRUE
                         /\ set_changed' = (had_prev /\ ids # Range(current_windows))
                         /\ stable' = (/\ had_prev /\ rearranged /\ ids # {}
                                       /\ ids = Range(current_windows)
                                       /\ Undisturbed(ids))
                         /\ rearranged' = (d = "rearrange")
                         /\ IF d = "rearrange" THEN Stay("arrange_begin") /\ env
                            ELSE IF d = "noop" THEN Stay("sleep") /\ env  \* the debug line is below INFO
                            ELSE Exit(ExitTraceback, d)
    /\ UNCHANGED <<prev_window_state, idx, cols, rows, tab_width, tab_height,
                   new_state, scr, xdpy, enumVars>>

\* arrange_and_update_state, lines 186-190
arrange_begin ==
    /\ pc = "arrange_begin"
    /\ \E run \in XdpyRuns :
         LET n == Len(current_windows)
             c == CeilSqrt(n)
             r == IF c = 0 THEN 0 ELSE CeilDiv(n, c)
             t == tabsize(c, r, run)
         IN IF c = 0
            THEN /\ Exit(ExitTraceback, "ZeroDivisionError")
                 /\ UNCHANGED <<cols, rows, tab_width, tab_height, new_state, idx, scr, xdpy>>
            ELSE /\ xdpy' = (IF t.exc # "none" THEN run ELSE NotRun)
                 /\ scr' = screensize(run)
                 /\ cols' = c /\ rows' = r
                 /\ IF t.exc # "none"
                    THEN /\ Exit(ExitTraceback, t.exc)
                         /\ UNCHANGED <<tab_width, tab_height, new_state, idx>>
                    ELSE /\ Stay("arrange_loop") /\ UNCHANGED envVars
                         /\ tab_width' = t.val[1] /\ tab_height' = t.val[2]
                         /\ new_state' = EmptyMap /\ idx' = 1
    /\ UNCHANGED <<prev_window_state, current_windows, cmds, skipped, probe, fail_at, log,
                   had_prev, set_changed, rearranged, stable, enumVars>>

\* arrange_and_update_state, lines 191-201: one iteration of the loop
arrange_step ==
    /\ pc = "arrange_loop" /\ idx <= Len(current_windows)
    /\ LET w == current_windows[idx]
           i == idx - 1
           x == CellX(i, cols, tab_width)
           y == CellY(i, cols, tab_height)
       IN \E e \in XpropExcs :
            IF is_maximized(StateRunOf(w, e))
            THEN \E xr \in XwinRuns :
                   LET g == get_window_geometry(geom[w], xr)
                   IN /\ skipped' = skipped \cup {w}
                      /\ probe' = [run |-> StateRunOf(w, e), moved |-> FALSE]
                      /\ log' = log \cup {"Skipping maximized window"}
                      /\ UNCHANGED <<cmds, fail_at>>
                      /\ IF g.exc # "none"
                         THEN Exit(ExitTraceback, g.exc) /\ UNCHANGED <<new_state, idx>>
                         ELSE /\ Stay("arrange_loop") /\ UNCHANGED envVars
                              /\ idx' = idx + 1
                              /\ new_state' = IF g.val # NoneVal
                                              THEN Put(new_state, w, g.val)
                                              ELSE new_state
            ELSE \E mv \in MoveExcs :
                   /\ cmds' = Append(cmds, [win_id |-> w,
                                            target |-> <<x, y, tab_width, tab_height>>])
                   /\ probe' = [run |-> StateRunOf(w, e), moved |-> TRUE]
                   /\ fail_at' = IF fail_at = 0 /\ mv # "none" THEN Len(cmds) + 1 ELSE fail_at
                   /\ geom' = [geom EXCEPT
                                 ![w] = move_resize(geom[w], <<x, y, tab_width, tab_height>>, mv)]
                   /\ new_state' = Put(new_state, w, <<x, y, tab_width, tab_height>>)
                   /\ idx' = idx + 1
                   /\ Stay("arrange_loop")
                   /\ UNCHANGED <<skipped, log, maximized>>
    /\ UNCHANGED <<prev_window_state, current_windows, cols, rows, tab_width, tab_height,
                   scr, xdpy, had_prev, set_changed, rearranged, stable,
                   enumVars>>

\* arrange_and_update_state, lines 203-204: new_state is bound to the local
\* name prev_window_states, the global prev_window_state is not assigned, and
\* the locals end with the call
arrange_end ==
    /\ pc = "arrange_loop" /\ idx > Len(current_windows)
    /\ prev_window_state' = prev_window_state
    /\ log' = log \cup {"Updated layout"}
    /\ idx' = 1 /\ cols' = 0 /\ rows' = 0 /\ tab_width' = 0 /\ tab_height' = 0
    /\ new_state' = EmptyMap /\ scr' = NoneVal /\ xdpy' = NotRun
    /\ skipped' = {} /\ probe' = NoProbe /\ fail_at' = 0
    /\ Stay("sleep")
    /\ UNCHANGED <<current_windows, cmds, had_prev, set_changed, rearranged, stable,
                   envVars, enumVars>>

\* main, lines 220-222: Ctrl+C raises KeyboardInterrupt wherever the try
\* block is executing; no handler below main catches it
KeyboardInterrupt ==
    /\ pc \in Running
    /\ Exit(ExitInterrupt, "KeyboardInterrupt")
    /\ UNCHANGED <<prev_window_state, passVars, enumVars>>

\* the user drags a window of the desktop
UserMove(w) ==
    /\ pc \in UserAt
    /\ w \in Range(current_windows)
    /\ geom[w] # UserGeom
    /\ geom' = [geom EXCEPT ![w] = UserGeom]
    /\ stable' = FALSE
    /\ UNCHANGED <<pc, exitCode, exitCause, at_exit, prev_window_state, current_windows,
                   idx, cols, rows, tab_width, tab_height, new_state, scr, xdpy, cmds,
                   skipped, probe, fail_at, log, maximized, had_prev, set_changed,
                   rearranged, enumVars>>

\* the user maximizes or restores a window of the desktop
UserToggleMax(w) ==
    /\ pc \in UserAt
    /\ w \in Range(current_windows)
    /\ maximized' = IF w \in maximized THEN maximized \ {w} ELSE maximized \cup {w}
    /\ stable' = FALSE
    /\ UNCHANGED <<pc, exitCode, exitCause, at_exit, prev_window_state, current_windows,
                   idx, cols, rows, tab_width, tab_height, new_state, scr, xdpy, cmds,
                   skipped, probe, fail_at, log, geom, had_prev, set_changed,
                   rearranged, enumVars>>

Next ==
    \/ Startup
    \/ arrange_windows
    \/ arrange_begin
    \/ arrange_step
    \/ arrange_end
    \/ KeyboardInterrupt
    \/ \E w \in wins : UserMove(w)
    \/ \E w \in wins : UserToggleMax(w)

Spec == Init /\ [][Next]_vars

\* The daemon on a larger desktop, followed through its first cycle.  The
\* cycle reads the state of a window when its loop reaches it: the user
\* maximizing or restoring a window is followed until then (no window is
\* away from where the user put it before the loop has reached it).
InitFirst == InitOn(1..MaxTiles)
Ahead(w) == \E j \in idx..Len(current_windows) : current_windows[j] = w
NextFirst ==
    \/ Startup
    \/ pc = "loop" /\ arrange_windows
    \/ arrange_begin
    \/ arrange_step
    \/ arrange_end
    \/ KeyboardInterrupt
    \/ \E w \in wins : pc = "arrange_loop" /\ Ahead(w) /\ UserToggleMax(w)
SpecFirst == InitFirst /\ [][NextFirst]_vars

\* ------------------------------------------------- open_windows on its own
\* The listings open_windows is applied to: up to MaxLines lines, the windows
\* in any order, each with any answer of the two xprop queries.
EnumStates ==
    { StateRun("none", {}), StateRun("none", {"_NET_WM_STATE_HIDDEN"}),
      StateRun("none", {"_NET_WM_STATE_ICONIC", HORZ}),
      StateRun("CalledProcessError", {}), StateRun("FileNotFoundError", {}) }
EnumTypes ==
    { NormalType, DialogType, NoTypeLine,
      TypeRun("none", <<[key |-> FALSE, last |-> "x"], [key |-> TRUE, last |-> NORMAL]>>),
      TypeRun("CalledProcessError", <<>>), TypeRun("FileNotFoundError", <<>>) }
EnumIds == {1, 2}
EnumLines ==
    [win_id : EnumIds, title : {"t"}, st : EnumStates, ty : EnumTypes]
    \cup [win_id : EnumIds, title : {""}, st : {StateRun("none", {})}, ty : {NormalType}]
EnumRuns ==
    {[exc |-> "none", lines |-> l] : l \in UNION {[1..n -> EnumLines] : n \in 0..MaxLines}}
    \cup {[exc |-> e, lines |-> <<>>] : e \in Exc}

InitEnum ==
    /\ wins = {}
    /\ pc = "enum_call" /\ exitCode = -1 /\ exitCause = "none" /\ at_exit = "none"
    /\ prev_window_state = EmptyMap
    /\ current_windows = <<>>
    /\ idx = 1 /\ cols = 0 /\ rows = 0 /\ tab_width = 0 /\ tab_height = 0
    /\ new_state = EmptyMap
    /\ scr = NoneVal /\ xdpy = NotRun
    /\ cmds = <<>> /\ skipped = {} /\ probe = NoProbe /\ fail_at = 0 /\ log = {}
    /\ geom = <<>> /\ maximized = {}
    /\ had_prev = FALSE /\ set_changed = FALSE /\ rearranged = FALSE /\ stable = FALSE
    /\ wm_out \in EnumRuns /\ ow_ret = NoRet

\* open_windows() is called and returns, or raises
open_windows_call ==
    /\ pc = "enum_call"
    /\ ow_ret' = open_windows(wm_out)
    /\ pc' = "enum_done"
    /\ UNCHANGED <<wins, exitCode, exitCause, at_exit, prev_window_state, passVars,
                   envVars, wm_out>>

NextEnum == open_windows_call
SpecEnum == InitEnum /\ [][NextEnum]_vars

\* =================================================================== claims

\* C1 (as claimed).  Idempotence: when a pass has arranged a non-empty set of
\* windows and the next pass enumerates the same identifiers with every
\* non-maximized window still at the geometry it was given, that pass issues
\* no move/resize command.  (Stated for the passes in which no window is
\* maximized, where the condition on the geometries covers every window.)
C1_Idempotent == (stable /\ maximized = {}) => cmds = <<>>

\* C2 (as claimed).  Change detection: a pass whose enumeration returns another
\* identifier set than the previous pass's enumeration calls
\* arrange_and_update_state.
C2_ChangeDetected == set_changed => rearranged

\* C3 (as claimed).  When an arrangement pass completes, prev_window_state is
\* overwritten: it maps every window the pass moved to the geometry of its
\* command, every maximized window whose geometry was read to that geometry,
\* and holds no identifier outside the pass.
C3_LayoutStateRecorded ==
    [][(pc = "arrange_loop" /\ pc' = "sleep") =>
         /\ \A k \in 1..Len(cmds) :
              Get(prev_window_state', cmds[k].win_id) = cmds[k].target
         /\ \A w \in skipped \cap DOMAIN new_state :
              Get(prev_window_state', w) = new_state[w]
         /\ DOMAIN prev_window_state' \subseteq Range(current_windows)]_vars

\* C4.  No move/resize command is issued for a window that xprop, asked by
\* is_maximized in that loop iteration, reports as maximized: whenever a
\* command is appended, its window is not one that is maximized with the
\* query having answered.
C4_MaximizedNeverMoved ==
    [][Len(cmds') > Len(cmds) =>
         /\ probe'.moved
         /\ ~(cmds'[Len(cmds')].win_id \in maximized /\ probe'.run.exc = "none")
         /\ probe'.run.atoms \cap {HORZ, VERT} = {}]_vars

\* C4 witness: a pass of three or more windows has run through, it skipped a
\* maximized window that was not the first, and moved windows before and after it.
C4_Witness ==
    /\ pc = "arrange_loop" /\ idx > Len(current_windows)
    /\ \E j \in 2..(Len(current_windows) - 1) :
         /\ current_windows[j] \in skipped
         /\ \E k \in 1..Len(cmds) : cmds[k].win_id = current_windows[j - 1]
         /\ \E k \in 1..Len(cmds) : cmds[k].win_id = current_windows[j + 1]

\* the grid of the specification, for n windows on a screen s
GridCols(n) == CHOOSE c \in 0..n : c * c >= n /\ (c = 0 \/ (c - 1) * (c - 1) < n)
GridRows(n) == CHOOSE r \in 0..n : r * GridCols(n) >= n /\ (r = 0 \/ (r - 1) * GridCols(n) < n)
GridTarget(n, s, i) ==
    LET cw == s[1] \div GridCols(n)
        ch == s[2] \div GridRows(n)
    IN <<(i % GridCols(n)) * cw, (i \div GridCols(n)) * ch, cw, ch>>

\* C5.  Grid placement: in an arrangement pass over N >= 1 windows on a W x H
\* screen, every window the loop has passed that was not skipped as maximized
\* has been issued exactly one command, with the target of its cell
\* ((i mod columns) * cell width, (i div columns) * cell height, cell width,
\* cell height), whether or not an earlier command failed; nothing else was issued.
C5_GridPlacement ==
    pc = "arrange_loop" =>
        LET n == Len(current_windows)
            done == {current_windows[j] : j \in 1..(idx - 1)} \ skipped
        IN /\ n >= 1
           /\ \A j \in 1..(idx - 1) :
                current_windows[j] \notin skipped =>
                  /\ Cardinality({k \in 1..Len(cmds) : cmds[k].win_id = current_windows[j]}) = 1
                  /\ \E k \in 1..Len(cmds) :
                       cmds[k] = [win_id |-> current_windows[j],
                                  target |-> GridTarget(n, scr, j - 1)]
           /\ Len(cmds) = Cardinality(done)

\* C5 witness: four windows on the 1920x1080 screen, the first command failed,
\* and the four commands are those of the example.
C5_Witness ==
    /\ pc = "arrange_loop" /\ idx > Len(current_windows)
    /\ Len(current_windows) = 4 /\ scr = <<1920, 1080>> /\ fail_at = 1
    /\ [k \in 1..Len(cmds) |-> cmds[k].target] =
         << <<0, 0, 960, 540>>, <<960, 0, 960, 540>>, <<0, 540, 960, 540>>,
            <<960, 540, 960, 540>> >>

\* the xdpyinfo run failed: the tool is missing, exited non-zero, printed no
\* 'dimensions:' line, or printed dimensions that do not parse
XdpyFailed(run) ==
    \/ run.exc \in Exc
    \/ \A k \in 1..Len(run.lines) : ~run.lines[k].dim
    \/ \E k \in 1..Len(run.lines) :
         /\ run.lines[k].dim
         /\ \/ run.lines[k].nparts < 2
            \/ Len(run.lines[k].fields) # 2
            \/ \E f \in 1..Len(run.lines[k].fields) : ~run.lines[k].fields[f].isint

\* C6 (as claimed).  Screen-size fallback: screensize yields a (width, height)
\* pair, and 1920x1080 whenever the query failed.
C6_ScreenFallback ==
    xdpy # NotRun => /\ Len(scr) = 2
                     /\ XdpyFailed(xdpy) => scr = <<1920, 1080>>

\* C7 (as claimed).  Once started, the daemon ends only by the startup tool
\* check or by the user interrupt, never by an error.
C7_NoFatalError == pc = "exited" => exitCause \in {"tools", "KeyboardInterrupt"}

\* C8 (as claimed).  Zero windows: a pass whose enumeration returned no window
\* computes no grid, issues no command, and logs that no windows were found.
C8_ZeroWindows ==
    (pc = "sleep" /\ had_prev /\ current_windows = <<>>) =>
        /\ ~rearranged
        /\ cmds = <<>>
        /\ \E m \in log : m \in {"No windows found.", "No windows found"}

\* the identifiers of the lines of a listing, in listing order
IdsOf(lines) == [k \in 1..Len(lines) |-> lines[k].win_id]

TypedNormal(ln) ==
    /\ ln.title # "" /\ ~is_minimized(ln.st)
    /\ get_window_type(ln.ty).val = NORMAL
NormalOrUntyped(ln) ==
    /\ ln.title # "" /\ ~is_minimized(ln.st)
    /\ get_window_type(ln.ty).val \in {NORMAL, NoneStr}

C10_InterruptBetweenCycles ==
    exitCause = "KeyboardInterrupt" => exitCode = 0 /\ at_exit \in {"loop", "sleep"}

\* C10 (amended).  A user interrupt ends the loop wherever it arrives, between
\* cycles or mid-pass; the process exits with code 0, and a pass in progress
\* is abandoned where it was: the windows the arranging loop had not reached
\* get no command.
C10_InterruptExitsZero ==
    exitCause = "KeyboardInterrupt" =>
        /\ pc = "exited" /\ exitCode = 0
        /\ at_exit \in Running
        /\ at_exit = "arrange_loop" =>
             \A j \in idx..Len(current_windows) :
                 \A k \in 1..Len(cmds) : cmds[k].win_id # current_windows[j]
        /\ at_exit = "arrange_begin" => cmds = <<>>

\* C10 witness: the interrupt arrived inside the arranging loop, after a
\* command was issued and before the last window was reached.
C10_Witness ==
    /\ exitCause = "KeyboardInterrupt" /\ at_exit = "arrange_loop"
    /\ cmds # <<>> /\ idx <= Len(current_windows)

====
